---- MODULE Spec2Model ----
(***************************************************************************)
(* A model of the pipeline engine of src/pipeline/engine.py: the task      *)
(* store, the per-key deterministic random source, the dead letter queue   *)
(* and the scheduler loop of PipelineEngine._execute_tasks, together with  *)
(* the console renderer of src/pipeline/renderer.py.                       *)
(*                                                                         *)
(* Units: durations are counted in tenths of a second (execution_time 1.0  *)
(* is 10), probabilities in quarters (failure_rate 0.5 is 2, a draw of     *)
(* 0.75 is 3), DLQ timestamps in thousandths above the seed.               *)
(***************************************************************************)
EXTENDS Integers, Sequences, FiniteSets, TLC

\* ------------------------------------------------------------------ bounds
\* Longest dependency list of a task in the configurations explored.
MaxDeps == 2
\* Number of distinct string-hash salts a process can start with.
NumSalts == 2
\* Longest dependency list in the configurations run on one engine object
\* one after the other.
MaxReuseDeps == 1

\* Task names of the configurations explored; NameOrder is their order under
\* Python's string comparison, which sorted() uses.
Names == {"a", "b", "c"}
NameOrder == <<"a", "b", "c">>

\* None as the value of an optional string field, and as the value of a
\* field or local that holds no object yet.
None == "None"
NoObject == [none |-> TRUE]

\* -------------------------------------------------------- number formats
\* A seed is the integer mant * 2^exp (42 is 21 * 2^1).  Seeds beyond 2^31
\* matter for the float arithmetic of the DLQ timestamp, so they are kept
\* in this form instead of as one 32-bit integer.
SmallSeed == [mant |-> 21, exp |-> 1]
BigSeed == [mant |-> 1, exp |-> 53]
Seeds == {SmallSeed, BigSeed}

\* Explicit fraction bits of an IEEE-754 double (Python float).
DoubleFractionBits == 52

RECURSIVE FloorLog2(_)
FloorLog2(n) == IF n <= 1 THEN 0 ELSE 1 + FloorLog2(n \div 2)

\* floor(log2(seed)): the binary exponent of float(seed).
BinaryExponent(seed) == seed.exp + FloorLog2(seed.mant)

\* Distance between neighbouring doubles around float(seed), in thousandths;
\* 0 stands for "finer than one thousandth" (binary exponent up to 42, where
\* the distance is at most 2^-10).  Seeds with binary exponent 43..51 have a
\* distance that is no whole number of thousandths and are not in Seeds.
UlpMilli(seed) ==
    IF BinaryExponent(seed) >= DoubleFractionBits
    THEN 1000 * 2^(BinaryExponent(seed) - DoubleFractionBits)
    ELSE 0

\* n rounded to the nearest multiple of step, ties to the even multiple
\* (IEEE-754 round-to-nearest-even, the rounding of float addition).
RoundToGrid(n, step) ==
    LET q == n \div step
        r == n % step
    IN  IF 2 * r < step THEN q * step
        ELSE IF 2 * r > step THEN (q + 1) * step
        ELSE IF q % 2 = 0 THEN q * step ELSE (q + 1) * step

\* The low 32 bits of the seed, as the integer they denote.
SeedLow32(seed) == IF seed.exp >= 32 THEN 0 ELSE seed.mant * 2^seed.exp

\* x % 2**32 for a Python integer x of small magnitude, as the two 16-bit
\* halves <<high, low>> of the result: a negative x wraps to 2^32 + x.
Mod2to32(x) ==
    IF x >= 0
    THEN <<x \div 65536, x % 65536>>
    ELSE <<65535 - ((-x - 1) \div 65536), 65535 - ((-x - 1) % 65536)>>

\* ------------------------------------------------------ random source
\* Probabilities are counted in units of 1/DrawScale.
DrawScale == 4
Draws == 0 .. (DrawScale - 1)
Rates == {0, DrawScale \div 2, DrawScale}

Salts == 0 .. (NumSalts - 1)

NameCode(name) == CHOOSE i \in 1 .. Len(NameOrder) : NameOrder[i] = name

\* The key f"{context.seed}:{task.name}": the seed's decimal digits, a colon
\* and the name.  The seed holds no colon, so the key determines both parts.
ContextKey(seed, name) == [seed |-> seed, name |-> name]

\* Python's hash() of a str is a keyed hash (SipHash) whose key is drawn when
\* the interpreter starts (PYTHONHASHSEED unset): the value is fixed within a
\* process and differs between processes.  It is modelled by a fixed mixing
\* function of the process salt and the key, with signed values.
StrHash(salt, key) ==
    (((NameCode(key.name) * 7 + key.seed.mant + key.seed.exp) * (2 * salt + 3)
      + 5 * salt) % 16) - 8

\* context_seed = (self.seed + hash(context)) % (2**32)
ContextSeed(seed, salt, key) == Mod2to32(SeedLow32(seed) + StrHash(salt, key))

\* The n-th output (n = 0 first) of random.Random(context_seed).random(), a
\* float in [0, 1), in units of 1/DrawScale.  The Mersenne Twister is a fixed
\* function of its seed; it is modelled by a fixed mixing function.
Draw(cs, n) == ((cs[1] % 3) + 3 * cs[2] + (cs[2] \div 4) + 5 * n) % DrawScale

\* DeterministicRandom.get_rng: the sub-generator of a key is created on the
\* first request and cached; a generator is its seed and how many outputs it
\* has produced.
GetRng(rg, salt, key) ==
    IF key \in DOMAIN rg.states
    THEN rg
    ELSE [rg EXCEPT !.states =
            [k \in DOMAIN rg.states \cup {key} |->
                IF k = key THEN [context_seed |-> ContextSeed(rg.seed, salt, key),
                                 pos |-> 0]
                ELSE rg.states[k]]]

\* -------------------------------------------------------- configurations
\* execution_time of a task when the configuration gives none (1.0).
DefaultExecutionTime == 10
ExecTimes == {DefaultExecutionTime}

\* Dependency lists: up to MaxDeps names, none repeated.  A name that the
\* configuration does not declare is a missing dependency.
DepLists ==
    {d \in UNION {[1 .. n -> Names] : n \in 0 .. MaxDeps} :
        \A i, j \in DOMAIN d : d[i] = d[j] => i = j}

TaskConfigs ==
    [dependencies : DepLists, execution_time : ExecTimes, failure_rate : Rates]

\* config['tasks'], keyed by task name (the tasks of one configuration have
\* distinct names here); the empty configuration is one of them.
Configs == UNION {[D -> TaskConfigs] : D \in SUBSET Names}

\* The renderer argument of run: none, or a ConsoleRenderer with its
\* fail_on_task field.
NoRenderer == [present |-> FALSE, fail_on_task |-> None]
Console(fail_on) == [present |-> TRUE, fail_on_task |-> fail_on]
Renderers == {NoRenderer, Console(None), Console("a")}

\* ------------------------------------------------------------ the state
VARIABLES
    config,            \* the configuration passed to run
    seed,              \* config['seed']
    renderer,          \* the renderer passed to run
    hash_salt,         \* the string-hash salt of the running process
    tasks,             \* PipelineEngine.tasks: name -> Task
    random_generator,  \* PipelineEngine.random_generator
    dlq_system,        \* PipelineEngine.dlq_system
    context,           \* the ExecutionContext run passes to _execute_tasks
    current_context,   \* the ExecutionContext of _execute_tasks
    observed,          \* per round begun: the context object read, what it held
    status_log,        \* name -> the values its TaskResult.status has taken
    remaining_tasks,   \* _execute_tasks: remaining_tasks
    processed_tasks,   \* _execute_tasks: processed_tasks
    executable_tasks,  \* _execute_tasks: executable_tasks of this round
    todo,              \* names the classification loop has still to visit
    queue,             \* names the execution loop has still to visit
    round_start,       \* remaining_tasks when the current round began
    renderer_calls,    \* hook calls made on the renderer, in order
    report,            \* what run returned, None before it returns
    history,           \* the finished earlier runs of this scenario
    pc                 \* where the run is

vars == <<config, seed, renderer, hash_salt, tasks, random_generator,
          dlq_system, context, current_context, observed, status_log,
          remaining_tasks, processed_tasks, executable_tasks, todo, queue,
          round_start, renderer_calls, report, history, pc>>

\* sorted(S) for a set or list of names S.
Sorted(S) == SelectSeq(NameOrder, LAMBDA n : n \in S)

Range(q) == {q[i] : i \in DOMAIN q}

EmptyMap == [x \in {} |-> None]

\* d[k] = v on a Python dict.
DictSet(d, k, v) == [x \in DOMAIN d \cup {k} |-> IF x = k THEN v ELSE d[x]]

\* ------------------------------------------------------ ExecutionContext
NewContext(s) ==
    [seed |-> s, task_results |-> EmptyMap, task_results_keys |-> <<>>,
     execution_order |-> <<>>, dlq |-> <<>>]

\* clone: a new ExecutionContext holding copies of the dict and the lists.
clone(ctx) ==
    [seed |-> ctx.seed, task_results |-> ctx.task_results,
     task_results_keys |-> ctx.task_results_keys,
     execution_order |-> ctx.execution_order, dlq |-> ctx.dlq]

\* Variant: any stored result counts as completed.
is_task_completed_any_result(ctx, task_name) ==
    task_name \in DOMAIN ctx.task_results

is_task_completed(ctx, task_name) ==
    /\ task_name \in DOMAIN ctx.task_results
    /\ ctx.task_results[task_name].status = "completed"

is_task_failed(ctx, task_name) ==
    /\ task_name \in DOMAIN ctx.task_results
    /\ ctx.task_results[task_name].status = "failed"

\* ------------------------------------------------------------ DLQSystem
NewDLQ(s) == [failures |-> <<>>, seed |-> s, counter |-> 0]

\* self.seed + self.counter * 0.001 in float arithmetic, as the distance of
\* the result above the seed in thousandths: the exact sum when doubles
\* around the seed are finer than a thousandth, else the nearest double.
DeterministicTimestamp(s, counter) ==
    IF UlpMilli(s) = 0 THEN counter ELSE RoundToGrid(counter, UlpMilli(s))

\* The reason strings: a fixed prefix and the ', '-joined names.
Reason(prefix, names) == [prefix |-> prefix, names |-> names]

add_failure(dlq, task_name, reason) ==
    [dlq EXCEPT
        !.failures = Append(@, [task |-> task_name, reason |-> reason,
                                timestamp |-> [seed |-> dlq.seed,
                                               milli |-> DeterministicTimestamp(dlq.seed, dlq.counter)]]),
        !.counter = @ + 1]

\* ------------------------------------------------------- PipelineEngine
NewTask(name, tc) ==
    [name |-> name, dependencies |-> tc.dependencies,
     execution_time |-> tc.execution_time, failure_rate |-> tc.failure_rate,
     status |-> "pending"]

\* _parse_config: add_task for every task of the configuration; a name that
\* is already in the store is overwritten, the other entries stay.
ParseConfig(store, cfg) ==
    [n \in DOMAIN store \cup DOMAIN cfg |->
        IF n \in DOMAIN cfg THEN NewTask(n, cfg[n]) ELSE store[n]]

\* Variant: the scan stops at the first missing dependency.
MissingDepsFirstOnly(store, task) ==
    LET all == SelectSeq(task.dependencies, LAMBDA dep : dep \notin DOMAIN store)
    IN  IF all = <<>> THEN <<>> ELSE <<Head(all)>>

\* Variant: a dependency that is not completed counts as failed whether or
\* not it has a result.
FailedDepsNotCompleted(store, ctx, task) ==
    SelectSeq(task.dependencies,
              LAMBDA dep : /\ dep \in DOMAIN store
                           /\ ~is_task_completed(ctx, dep))

\* Variant: the failed dependencies are reported in sorted order.
FailedDepsSorted(store, ctx, task) ==
    Sorted({task.dependencies[i] : i \in
              {j \in DOMAIN task.dependencies :
                 /\ task.dependencies[j] \in DOMAIN store
                 /\ is_task_failed(ctx, task.dependencies[j])}})

\* Variant: a dependency without a result does not hold a task back.
CanExecuteIgnoringPending(store, ctx, task) ==
    \A i \in DOMAIN task.dependencies :
        /\ task.dependencies[i] \in DOMAIN store
        /\ ~is_task_failed(ctx, task.dependencies[i])

\* The dependency scan of one task in the classification loop.
MissingDeps(store, task) ==
    SelectSeq(task.dependencies, LAMBDA dep : dep \notin DOMAIN store)

FailedDeps(store, ctx, task) ==
    SelectSeq(task.dependencies,
              LAMBDA dep : /\ dep \in DOMAIN store
                           /\ ~is_task_completed(ctx, dep)
                           /\ is_task_failed(ctx, dep))

CanExecute(store, ctx, task) ==
    \A i \in DOMAIN task.dependencies :
        /\ task.dependencies[i] \in DOMAIN store
        /\ is_task_completed(ctx, task.dependencies[i])

\* Variant: the status is assigned only when the task fails.
ExecuteTaskKeepsRunning(task, ctx, rg, salt) ==
    LET key     == ContextKey(ctx.seed, task.name)
        rg1     == GetRng(rg, salt, key)
        rng     == rg1.states[key]
        draw    == Draw(rng.context_seed, rng.pos)
        success == draw > task.failure_rate
    IN  [result |->
            [task_name |-> task.name,
             status |-> IF success THEN "running" ELSE "failed",
             start_time |-> 0,
             end_time |-> 0 + task.execution_time,
             error |-> IF success THEN None
                       ELSE "Task failed due to configured failure rate",
             duration |-> task.execution_time],
         statuses |-> IF success THEN <<"running">> ELSE <<"running", "failed">>,
         random_generator |->
            [rg1 EXCEPT !.states[key].pos = @ + 1]]

\* Variant: a draw equal to the failure rate lets the task succeed.
ExecuteTaskAtLeast(task, ctx, rg, salt) ==
    LET key     == ContextKey(ctx.seed, task.name)
        rg1     == GetRng(rg, salt, key)
        rng     == rg1.states[key]
        draw    == Draw(rng.context_seed, rng.pos)
        success == draw >= task.failure_rate
    IN  [result |->
            [task_name |-> task.name,
             status |-> IF success THEN "completed" ELSE "failed",
             start_time |-> 0,
             end_time |-> 0 + task.execution_time,
             error |-> IF success THEN None
                       ELSE "Task failed due to configured failure rate",
             duration |-> task.execution_time],
         statuses |-> <<"running", IF success THEN "completed" ELSE "failed">>,
         random_generator |->
            [rg1 EXCEPT !.states[key].pos = @ + 1]]

\* _execute_task: one draw from the task's sub-generator decides the status.
\* Returns the TaskResult and the random source after the draw.
ExecuteTask(task, ctx, rg, salt) ==
    LET key     == ContextKey(ctx.seed, task.name)
        rg1     == GetRng(rg, salt, key)
        rng     == rg1.states[key]
        draw    == Draw(rng.context_seed, rng.pos)
        success == draw > task.failure_rate
    IN  [result |->
            [task_name |-> task.name,
             status |-> IF success THEN "completed" ELSE "failed",
             start_time |-> 0,
             end_time |-> 0 + task.execution_time,
             error |-> IF success THEN None
                       ELSE "Task failed due to configured failure rate",
             duration |-> task.execution_time],
         statuses |-> <<"running", IF success THEN "completed" ELSE "failed">>,
         random_generator |->
            [rg1 EXCEPT !.states[key].pos = @ + 1]]

\* A hook call on the renderer: ConsoleRenderer raises when the name is its
\* fail_on_task.
HookCall(r, hook, task_name) ==
    IF r.present
    THEN <<[hook |-> hook, task |-> task_name,
            raised |-> (r.fail_on_task = task_name)]>>
    ELSE <<>>

\* Variant: task_started is called inside the try block of _execute_task, so
\* what it raises turns the task into a failed one.
RunOneHookInsideTry(task, ctx, rg, salt, r) ==
    LET out      == ExecuteTask(task, ctx, rg, salt)
        raised   == r.present /\ r.fail_on_task = task.name
        result   == IF raised
                    THEN [out.result EXCEPT !.status = "failed",
                                            !.error = "Intentional renderer failure"]
                    ELSE out.result
        end_hook == IF result.status = "completed"
                    THEN "task_completed" ELSE "task_failed"
    IN  [result |-> result,
         statuses |-> <<"running", result.status>>,
         random_generator |-> IF raised THEN rg ELSE out.random_generator,
         calls |-> HookCall(r, "task_started", task.name)
                   \o HookCall(r, end_hook, task.name)]

\* Variant: one try block holds both hook calls, so a task_started that
\* raises skips the call that reports the outcome.
RunOneSingleTry(task, ctx, rg, salt, r) ==
    LET out      == ExecuteTask(task, ctx, rg, salt)
        raised   == r.present /\ r.fail_on_task = task.name
        end_hook == IF out.result.status = "completed"
                    THEN "task_completed" ELSE "task_failed"
    IN  [result |-> out.result,
         statuses |-> out.statuses,
         random_generator |-> out.random_generator,
         calls |-> IF raised
                   THEN HookCall(r, "task_started", task.name)
                   ELSE HookCall(r, "task_started", task.name)
                        \o HookCall(r, end_hook, task.name)]

\* The body of the execution loop for one task, apart from its bookkeeping:
\* task_started inside try/except, _execute_task, then task_completed or
\* task_failed inside try/except.  What a hook raises is caught and dropped,
\* so the calls are only listed.
RunOne(task, ctx, rg, salt, r) ==
    LET out      == ExecuteTask(task, ctx, rg, salt)
        end_hook == IF out.result.status = "completed"
                    THEN "task_completed" ELSE "task_failed"
    IN  [result |-> out.result,
         statuses |-> out.statuses,
         random_generator |-> out.random_generator,
         calls |-> HookCall(r, "task_started", task.name)
                   \o HookCall(r, end_hook, task.name)]

\* Variant: the deadlock branch walks the whole task store.
DeadlockVictimsAllTasks(store, rem) == Sorted(DOMAIN store)

\* The names the deadlock branch moves to the DLQ, in its order.
DeadlockVictims(store, rem) == Sorted(rem)

\* Variant: the loop has no deadlock branch.
AfterClassificationNoDeadlock(exe) == "execute"

\* After the classification loop: the deadlock branch when nothing can run.
AfterClassification(exe) == IF exe = <<>> THEN "deadlock" ELSE "execute"

\* Variant: total_tasks counts the tasks that have a result.
GenerateResultCountsResults(store, ctx, total_duration) ==
    LET completed == SelectSeq(ctx.task_results_keys,
                        LAMBDA n : ctx.task_results[n].status = "completed")
        failed    == SelectSeq(ctx.task_results_keys,
                        LAMBDA n : ctx.task_results[n].status = "failed")
    IN  [summary |->
            [total_tasks |-> Cardinality(DOMAIN ctx.task_results),
             completed_tasks |-> Len(completed),
             failed_tasks |-> Len(failed),
             dlq_count |-> Len(ctx.dlq),
             total_duration |-> total_duration],
         completed_tasks |-> completed,
         failed_tasks |-> failed,
         dlq |-> ctx.dlq,
         execution_order |-> ctx.execution_order,
         task_durations |->
            [n \in DOMAIN ctx.task_results |-> ctx.task_results[n].duration]]

\* _generate_result; dict items come in insertion order.
GenerateResult(store, ctx, total_duration) ==
    LET completed == SelectSeq(ctx.task_results_keys,
                        LAMBDA n : ctx.task_results[n].status = "completed")
        failed    == SelectSeq(ctx.task_results_keys,
                        LAMBDA n : ctx.task_results[n].status = "failed")
    IN  [summary |->
            [total_tasks |-> Cardinality(DOMAIN store),
             completed_tasks |-> Len(completed),
             failed_tasks |-> Len(failed),
             dlq_count |-> Len(ctx.dlq),
             total_duration |-> total_duration],
         completed_tasks |-> completed,
         failed_tasks |-> failed,
         dlq |-> ctx.dlq,
         execution_order |-> ctx.execution_order,
         task_durations |->
            [n \in DOMAIN ctx.task_results |-> ctx.task_results[n].duration]]

\* Variant: a round visits the names already processed as well.
LoopHeadRevisitsProcessed(rem) ==
    /\ round_start' = rem
    /\ IF rem = {}
       THEN /\ pc' = "exit"
            /\ todo' = <<>>
            /\ UNCHANGED <<executable_tasks, observed>>
       ELSE /\ pc' = "classify"
            /\ todo' = Sorted(rem \cup processed_tasks')
            /\ executable_tasks' = <<>>
            /\ observed' = Append(observed, [object |-> "current_context",
                                          held |-> current_context'])

\* The while test of the scheduler loop: a new round starts with the sorted
\* snapshot of the remaining names, or the loop is left.  The round that
\* starts reads the object current_context as it is then.
LoopHead(rem) ==
    /\ round_start' = rem
    /\ IF rem = {}
       THEN /\ pc' = "exit"
            /\ todo' = <<>>
            /\ UNCHANGED <<executable_tasks, observed>>
       ELSE /\ pc' = "classify"
            /\ todo' = Sorted(rem)
            /\ executable_tasks' = <<>>
            /\ observed' = Append(observed, [object |-> "current_context",
                                          held |-> current_context'])

\* ---------------------------------------------------------------- steps
Scenario(cfgs, seeds, salts, renderers) ==
    /\ config \in cfgs
    /\ seed \in seeds
    /\ hash_salt \in salts
    /\ renderer \in renderers
    /\ tasks = EmptyMap
    /\ random_generator = NoObject
    /\ dlq_system = NoObject
    /\ context = NoObject
    /\ current_context = NoObject
    /\ observed = <<>>
    /\ status_log = EmptyMap
    /\ remaining_tasks = {}
    /\ processed_tasks = {}
    /\ executable_tasks = <<>>
    /\ todo = <<>>
    /\ queue = <<>>
    /\ round_start = {}
    /\ renderer_calls = <<>>
    /\ report = NoObject
    /\ history = <<>>
    /\ pc = "start"

Init == Scenario(Configs, Seeds, Salts, {NoRenderer, Console("a")})

\* run up to the first test of the while loop of _execute_tasks.
Run ==
    /\ pc = "start"
    /\ random_generator' = [seed |-> seed, states |-> EmptyMap]
    /\ dlq_system' = NewDLQ(seed)
    /\ tasks' = ParseConfig(tasks, config)
    /\ context' = NewContext(seed)
    /\ current_context' = clone(context')
    /\ remaining_tasks' = DOMAIN tasks'
    /\ processed_tasks' = {}
    /\ LoopHead(remaining_tasks')
    /\ UNCHANGED <<config, seed, renderer, hash_salt, status_log, queue,
                   renderer_calls, report, history>>

\* One iteration of the classification loop.
Classify ==
    /\ pc = "classify"
    /\ todo # <<>>
    /\ LET task_name == Head(todo)
           task      == tasks[task_name]
           missing   == MissingDeps(tasks, task)
           failed    == FailedDeps(tasks, current_context, task)
           can       == CanExecute(tasks, current_context, task)
           exe       == IF missing = <<>> /\ failed = <<>> /\ can
                        THEN Append(executable_tasks, task_name)
                        ELSE executable_tasks
       IN  /\ IF missing # <<>>
              THEN /\ dlq_system' = add_failure(dlq_system, task_name,
                                        Reason("Missing dependencies: ", missing))
                   /\ processed_tasks' = processed_tasks \cup {task_name}
                   /\ remaining_tasks' = remaining_tasks \ {task_name}
              ELSE IF failed # <<>>
              THEN /\ dlq_system' = add_failure(dlq_system, task_name,
                                        Reason("Failed dependencies: ", failed))
                   /\ processed_tasks' = processed_tasks \cup {task_name}
                   /\ remaining_tasks' = remaining_tasks \ {task_name}
              ELSE UNCHANGED <<dlq_system, processed_tasks, remaining_tasks>>
           /\ executable_tasks' = exe
           /\ todo' = Tail(todo)
           /\ IF Tail(todo) # <<>>
              THEN pc' = "classify" /\ UNCHANGED queue
              ELSE /\ pc' = AfterClassification(exe)
                   /\ queue' = IF pc' = "execute" THEN Sorted(Range(exe))
                                ELSE queue
    /\ UNCHANGED <<config, seed, renderer, hash_salt, tasks, random_generator,
                   context, current_context, observed, status_log,
                   round_start, renderer_calls, report, history>>

RECURSIVE AddFailures(_, _, _)
AddFailures(dlq, names, reason) ==
    IF names = <<>> THEN dlq
    ELSE AddFailures(add_failure(dlq, Head(names), reason), Tail(names), reason)

\* No task can run: every remaining task goes to the DLQ and the loop breaks.
Deadlock ==
    /\ pc = "deadlock"
    /\ dlq_system' = AddFailures(dlq_system, DeadlockVictims(tasks, remaining_tasks),
            Reason("Circular dependency or unresolvable dependencies", <<>>))
    /\ processed_tasks' = processed_tasks \cup remaining_tasks
    /\ pc' = "exit"
    /\ UNCHANGED <<config, seed, renderer, hash_salt, tasks, random_generator,
                   context, current_context, observed, status_log,
                   remaining_tasks, executable_tasks, todo,
                   queue, round_start, renderer_calls, report, history>>

\* One iteration of the execution loop.
Execute ==
    /\ pc = "execute"
    /\ queue # <<>>
    /\ LET task_name == Head(queue)
           out       == RunOne(tasks[task_name], current_context,
                               random_generator, hash_salt, renderer)
       IN  /\ processed_tasks' = processed_tasks \cup {task_name}
           /\ remaining_tasks' = remaining_tasks \ {task_name}
           /\ random_generator' = out.random_generator
           /\ current_context' =
                [current_context EXCEPT
                    !.task_results = DictSet(@, task_name, out.result),
                    !.task_results_keys =
                        IF task_name \in DOMAIN current_context.task_results
                        THEN @ ELSE Append(@, task_name),
                    !.execution_order = Append(@, task_name)]
           /\ status_log' =
                DictSet(status_log, task_name,
                        (IF task_name \in DOMAIN status_log
                         THEN status_log[task_name] ELSE <<>>) \o out.statuses)
           /\ renderer_calls' = renderer_calls \o out.calls
           /\ queue' = Tail(queue)
           /\ IF Tail(queue) # <<>>
              THEN UNCHANGED <<pc, todo, executable_tasks, round_start,
                               observed>>
              ELSE LoopHead(remaining_tasks')
    /\ UNCHANGED <<config, seed, renderer, hash_salt, tasks, dlq_system,
                   context, report, history>>

\* The end of _execute_tasks and of run: the DLQ is attached to the context
\* and the report is generated.
Finish ==
    /\ pc = "exit"
    /\ current_context' = [current_context EXCEPT !.dlq = dlq_system.failures]
    /\ report' = GenerateResult(tasks, current_context',
                                Len(current_context.execution_order) - 0)
    /\ pc' = "done"
    /\ UNCHANGED <<config, seed, renderer, hash_salt, tasks, random_generator,
                   dlq_system, context, observed, status_log, remaining_tasks,
                   processed_tasks, executable_tasks, todo, queue, round_start,
                   renderer_calls, history>>

Next == Run \/ Classify \/ Deadlock \/ Execute \/ Finish

Spec == Init /\ [][Next]_vars

\* Every step of a run is taken as soon as it is enabled: the engine is one
\* synchronous thread with no suspension point.  The runs followed to their
\* end are those of every configuration under one seed and one hash salt,
\* with a renderer that raises.
FairInit == Scenario(Configs, {SmallSeed}, {0}, {Console("a")})

FairSpec == FairInit /\ [][Next]_vars /\ WF_vars(Next)

\* --------------------------------------------------------- repeated runs
\* final_validation.py runs the same configuration and seed again on a fresh
\* PipelineEngine, in the same process (its loop) or in another invocation
\* of the script (another hash salt), with or without a renderer.
RunRecord == [config |-> config, hash_salt |-> hash_salt,
              renderer |-> renderer, renderer_calls |-> renderer_calls,
              report |-> report]

\* A new call of run: nothing of the previous call's frame is left.
NewCall ==
    /\ context' = NoObject
    /\ current_context' = NoObject
    /\ observed' = <<>>
    /\ status_log' = EmptyMap
    /\ remaining_tasks' = {}
    /\ processed_tasks' = {}
    /\ executable_tasks' = <<>>
    /\ todo' = <<>>
    /\ queue' = <<>>
    /\ round_start' = {}
    /\ renderer_calls' = <<>>
    /\ report' = NoObject
    /\ pc' = "start"

\* PipelineEngine(): the fields a new engine object starts with.
NewEngine ==
    /\ tasks' = EmptyMap
    /\ random_generator' = NoObject
    /\ dlq_system' = NoObject

Rerun ==
    /\ pc = "done"
    /\ history = <<>>
    /\ history' = <<RunRecord>>
    /\ hash_salt' \in Salts
    /\ renderer' \in Renderers
    /\ NewEngine
    /\ NewCall
    /\ UNCHANGED <<config, seed>>

\* The configurations run twice declare tasks among RerunNames; the other
\* names occur in them as missing dependencies.
RerunNames == {"a", "b"}
RerunConfigs == {c \in Configs : DOMAIN c \subseteq RerunNames}

RerunInit == Scenario(RerunConfigs, Seeds, Salts, Renderers)

RerunNext == Next \/ Rerun

RerunSpec == RerunInit /\ [][RerunNext]_vars

\* ------------------------------------------------- one engine, two configs
\* The configurations run one after the other on one engine.
ReuseConfigs ==
    {c \in RerunConfigs :
        \A n \in DOMAIN c : Len(c[n].dependencies) <= MaxReuseDeps}

\* run is called a second time on the same PipelineEngine object, with
\* another configuration of the same seed: the object keeps its fields, and
\* run replaces random_generator and dlq_system but hands self.tasks to
\* _parse_config as it is.
RunAgain ==
    /\ pc = "done"
    /\ history = <<>>
    /\ history' = <<RunRecord>>
    /\ config' \in ReuseConfigs
    /\ NewCall
    /\ UNCHANGED <<seed, renderer, hash_salt, tasks, random_generator,
                   dlq_system>>

\* The configuration of the second call is then run alone on a new engine
\* of the same process.
FreshRun ==
    /\ pc = "done"
    /\ Len(history) = 1
    /\ history' = Append(history, RunRecord)
    /\ NewEngine
    /\ NewCall
    /\ UNCHANGED <<config, seed, renderer, hash_salt>>

ReuseInit == Scenario(ReuseConfigs, {SmallSeed}, Salts, {NoRenderer})

ReuseNext == Next \/ RunAgain \/ FreshRun

ReuseSpec == ReuseInit /\ [][ReuseNext]_vars

\* ------------------------------------------- one seed, two configurations
\* Another configuration of the same seed is run on a new engine, in the
\* same process or in another invocation of the program: run_pipeline.py
\* makes one engine and one run per invocation, final_validation.py several
\* engines in one process.
RunOther ==
    /\ pc = "done"
    /\ history = <<>>
    /\ history' = <<RunRecord>>
    /\ config' \in ReuseConfigs
    /\ hash_salt' \in Salts
    /\ NewEngine
    /\ NewCall
    /\ UNCHANGED <<seed, renderer>>

OtherInit == Scenario(ReuseConfigs, {SmallSeed}, Salts, {NoRenderer})

OtherNext == Next \/ RunOther

OtherSpec == OtherInit /\ [][OtherNext]_vars

\* ============================================================ properties
DlqTasks(dlq) == {dlq[i].task : i \in DOMAIN dlq}

MissingPrefix == "Missing dependencies: "
FailedPrefix == "Failed dependencies: "
CyclicReason == "Circular dependency or unresolvable dependencies"

\* The dependencies of a configured task that the configuration does not
\* declare, in declaration order.
AbsentDeps(n) ==
    SelectSeq(config[n].dependencies, LAMBDA d : d \notin DOMAIN config)

\* The dependencies of a stored task whose result in ctx is FAILED, in
\* declaration order.
FailedNow(ctx, n) ==
    SelectSeq(tasks[n].dependencies,
              LAMBDA d : /\ d \in DOMAIN ctx.task_results
                         /\ ctx.task_results[d].status = "failed")

\* C1: two runs of the same configuration and seed, each on a fresh engine,
\* in the same process or in two invocations of the program, return the same
\* report.
Determinism ==
    (pc = "done" /\ history # <<>>) => report = history[1].report

\* C2: whenever a task is executed and appended to execution_order, each of
\* its dependencies is a declared task whose result in the current context
\* is COMPLETED at that moment.
DependencyGating ==
    [][pc = "execute" =>
        LET T == Head(queue)
        IN  /\ current_context'.execution_order =
                   Append(current_context.execution_order, T)
            /\ \A i \in DOMAIN config[T].dependencies :
                 LET dep == config[T].dependencies[i]
                 IN  /\ dep \in DOMAIN config
                     /\ dep \in DOMAIN current_context.task_results
                     /\ current_context.task_results[dep].status = "completed"]_vars

\* A task with a dependency has been executed.
DependencyGatingWitness ==
    /\ pc = "done"
    /\ \E n \in Range(report.execution_order) : config[n].dependencies # <<>>

\* C3: at the end of a run every task with a dependency that is not declared
\* has a DLQ entry whose reason is "Missing dependencies: " with the absent
\* names, is not in execution_order and has no task result.
MissingContainment ==
    pc = "done" =>
        \A n \in DOMAIN config :
            AbsentDeps(n) # <<>> =>
                /\ \E i \in DOMAIN report.dlq :
                     /\ report.dlq[i].task = n
                     /\ report.dlq[i].reason.prefix = MissingPrefix
                     /\ report.dlq[i].reason.names = AbsentDeps(n)
                /\ n \notin Range(report.execution_order)
                /\ n \notin DOMAIN current_context.task_results
                /\ n \notin DOMAIN report.task_durations

\* A run has ended in which a task with an absent and a completed dependency
\* was dead lettered.
MissingContainmentWitness ==
    /\ pc = "done"
    /\ \E n \in DOMAIN config :
         /\ Len(AbsentDeps(n)) = 1
         /\ \E d \in Range(config[n].dependencies) :
              d \in Range(report.completed_tasks)
         /\ n \in DlqTasks(report.dlq)

\* C4: the tasks with a task result and the tasks with a DLQ entry are
\* disjoint in every state, and a task that failed its draw is in
\* execution_order and, in the report, in failed_tasks and not in dlq.
StochasticSeparation ==
    pc # "start" =>
        LET results == current_context.task_results
        IN  /\ DOMAIN results \cap DlqTasks(dlq_system.failures) = {}
            /\ \A n \in DOMAIN results :
                 results[n].status = "failed" =>
                    /\ n \in Range(current_context.execution_order)
                    /\ pc = "done" =>
                         /\ n \in Range(report.failed_tasks)
                         /\ n \in Range(report.execution_order)
                         /\ n \notin DlqTasks(report.dlq)

\* A run has ended with a task that failed its draw and a dead-lettered one.
StochasticSeparationWitness ==
    /\ pc = "done"
    /\ report.failed_tasks # <<>>
    /\ report.dlq # <<>>

\* C5: a task without missing dependency that is classified while some of
\* its dependencies have a FAILED result leaves the remaining set in that
\* step, gets one DLQ entry "Failed dependencies: " with exactly those
\* dependencies in declaration order, and is never executed.
FailedDependencyRouting ==
    [][/\ (pc = "classify" /\ todo # <<>>) =>
            LET T == Head(todo)
            IN  (AbsentDeps(T) = <<>> /\ FailedNow(current_context, T) # <<>>) =>
                    /\ T \notin remaining_tasks'
                    /\ T \notin Range(executable_tasks')
                    /\ Len(dlq_system'.failures) = Len(dlq_system.failures) + 1
                    /\ LET e == dlq_system'.failures[Len(dlq_system'.failures)]
                       IN  /\ e.task = T
                           /\ e.reason.prefix = FailedPrefix
                           /\ e.reason.names = FailedNow(current_context, T)
       /\ pc' # "start" =>
            \A i \in DOMAIN dlq_system'.failures :
                dlq_system'.failures[i].reason.prefix = FailedPrefix =>
                    dlq_system'.failures[i].task
                        \notin Range(current_context'.execution_order)]_vars

\* A task with two declared dependencies, one FAILED and one without a
\* result, has been dead lettered for the failed one.
FailedDependencyRoutingWitness ==
    /\ pc = "done"
    /\ \E i \in DOMAIN report.dlq :
         /\ report.dlq[i].reason.prefix = FailedPrefix
         /\ Len(report.dlq[i].reason.names) = 1
         /\ Len(config[report.dlq[i].task].dependencies) = 2
         /\ AbsentDeps(report.dlq[i].task) = <<>>

\* Two distinct declared tasks that depend on each other.
Mutual(x, y) ==
    /\ x # y
    /\ y \in Range(config[x].dependencies)
    /\ x \in Range(config[y].dependencies)

InCycleOfTwo(x) == \E y \in DOMAIN config : Mutual(x, y)

DlqEntriesOf(dlq, x) == {i \in DOMAIN dlq : dlq[i].task = x}

\* C6 as stated: two tasks that depend on each other never execute and each
\* appears exactly once in dlq, with the cyclic/unresolvable reason.
CycleHandlingAsStated ==
    pc = "done" =>
        \A x \in DOMAIN config :
            InCycleOfTwo(x) =>
                /\ x \notin Range(report.execution_order)
                /\ Cardinality(DlqEntriesOf(report.dlq, x)) = 1
                /\ \A i \in DlqEntriesOf(report.dlq, x) :
                     report.dlq[i].reason.prefix = CyclicReason

\* C6 amended: two tasks that depend on each other never execute and each
\* appears exactly once in dlq; the reason is "Missing dependencies" when the
\* task has an undeclared dependency, else "Failed dependencies" when one of
\* its dependencies has a FAILED result, else the cyclic/unresolvable reason.
CycleHandling ==
    pc = "done" =>
        \A x \in DOMAIN config :
            InCycleOfTwo(x) =>
                /\ x \notin Range(report.execution_order)
                /\ x \notin DOMAIN current_context.task_results
                /\ Cardinality(DlqEntriesOf(report.dlq, x)) = 1
                /\ \A i \in DlqEntriesOf(report.dlq, x) :
                     report.dlq[i].reason =
                        IF AbsentDeps(x) # <<>>
                        THEN Reason(MissingPrefix, AbsentDeps(x))
                        ELSE IF FailedNow(current_context, x) # <<>>
                        THEN Reason(FailedPrefix, FailedNow(current_context, x))
                        ELSE Reason(CyclicReason, <<>>)

\* A run has ended in which one task of a two-cycle was dead lettered for a
\* failed third task and the other for the cycle.
CycleHandlingWitness ==
    /\ pc = "done"
    /\ \E x, y \in DOMAIN config :
         /\ Mutual(x, y)
         /\ \E i \in DlqEntriesOf(report.dlq, x) :
              report.dlq[i].reason.prefix = FailedPrefix
         /\ \E i \in DlqEntriesOf(report.dlq, y) :
              report.dlq[i].reason.prefix = CyclicReason

\* C7: at the end of a run every declared task all of whose dependencies are
\* declared and COMPLETED has been executed and is not in dlq, whatever
\* failed or was blocked elsewhere.
FailureIsolation ==
    pc = "done" =>
        \A n \in DOMAIN config :
            (\A i \in DOMAIN config[n].dependencies :
                /\ config[n].dependencies[i] \in DOMAIN config
                /\ config[n].dependencies[i] \in Range(report.completed_tasks))
            => /\ n \in Range(report.execution_order)
               /\ n \in processed_tasks
               /\ n \notin remaining_tasks
               /\ n \notin DlqTasks(report.dlq)

\* A run has ended in which one task failed or was dead lettered and another
\* task ran after its dependency completed.
FailureIsolationWitness ==
    /\ pc = "done"
    /\ report.failed_tasks # <<>> \/ report.dlq # <<>>
    /\ \E n \in Range(report.execution_order) :
         /\ config[n].dependencies # <<>>
         /\ \A i \in DOMAIN config[n].dependencies :
              config[n].dependencies[i] \in Range(report.completed_tasks)

\* C8: a run whose renderer raises in a hook ends with the same report as
\* the run of the same configuration and seed in the same process with a
\* renderer that never raises or with no renderer.
RendererIsolation ==
    (pc = "done" /\ history # <<>> /\ history[1].hash_salt = hash_salt)
        => report = history[1].report

\* Two runs in one process have ended, the first with a renderer that was
\* called and never raised, the second with a renderer that raised.
RendererIsolationWitness ==
    /\ pc = "done"
    /\ history # <<>>
    /\ history[1].hash_salt = hash_salt
    /\ history[1].renderer = Console(None)
    /\ history[1].renderer_calls # <<>>
    /\ \E i \in DOMAIN renderer_calls : renderer_calls[i].raised

\* C9: every run terminates with a report, and every round that goes on to
\* execute tasks leaves the remaining set strictly smaller than it found it.
Termination ==
    /\ <>(pc = "done")
    /\ [][(pc = "execute" /\ pc' # "execute") =>
            /\ remaining_tasks' \subseteq round_start
            /\ remaining_tasks' # round_start]_vars

\* A run has ended through the deadlock branch after a round that executed
\* a task.
TerminationWitness ==
    /\ pc = "done"
    /\ report.execution_order # <<>>
    /\ \E i \in DOMAIN report.dlq : report.dlq[i].reason.prefix = CyclicReason

\* C10: the k-th DLQ entry (k from 0) has timestamp seed + k * 0.001, the
\* timestamps increase strictly in insertion order, and the counter is the
\* number of entries.
DlqShapeAndOrdering ==
    pc # "start" =>
        LET f == dlq_system.failures
        IN  /\ dlq_system.counter = Len(f)
            /\ \A k \in DOMAIN f :
                 /\ DOMAIN f[k] = {"task", "reason", "timestamp"}
                 /\ f[k].timestamp.seed = seed
                 /\ f[k].timestamp.milli = k - 1
            /\ \A i, j \in DOMAIN f :
                 i < j => f[i].timestamp.milli < f[j].timestamp.milli

\* C11: when run is called on one PipelineEngine with a first configuration
\* and then with a second one, the task store, the random source and the DLQ
\* recorder of the second call hold nothing that came from the first
\* configuration, and the second report equals the report of a new engine
\* run on the second configuration alone.
NoStateLeak ==
    /\ (Len(history) = 1 /\ pc # "start") =>
          /\ DOMAIN tasks = DOMAIN config
          /\ DOMAIN random_generator.states \subseteq
                {ContextKey(seed, n) : n \in DOMAIN config}
          /\ DlqTasks(dlq_system.failures) \subseteq DOMAIN config
    /\ (Len(history) = 2 /\ pc = "done") => report = history[2].report

\* The draw that decided the result of the executed task n: the last value
\* taken from the sub-generator of its key.
DrawOf(n) ==
    LET rng == random_generator.states[ContextKey(seed, n)]
    IN  Draw(rng.context_seed, rng.pos - 1)

Executed == DOMAIN current_context.task_results

StatusOf(n) == current_context.task_results[n].status

IsPrefix(p, q) == Len(p) <= Len(q) /\ SubSeq(q, 1, Len(p)) = p

NoRepeat(q) == \A i, j \in DOMAIN q : i # j => q[i] # q[j]

\* C13: execution_order never holds a name twice, its names are exactly the
\* tasks that have a result, one TaskResult is made per executed task and
\* stays as stored, and execution_order only grows at its end.
ExecutionOrderIntegrity ==
    [][pc' # "start" =>
        LET order == current_context'.execution_order
            res   == current_context'.task_results
        IN  /\ NoRepeat(order)
            /\ Range(order) = DOMAIN res
            /\ DOMAIN status_log' = DOMAIN res
            /\ \A n \in DOMAIN res : Len(status_log'[n]) = 2
            /\ pc # "start" =>
                  /\ IsPrefix(current_context.execution_order, order)
                  /\ \A n \in DOMAIN current_context.task_results :
                        /\ n \in DOMAIN res
                        /\ res[n] = current_context.task_results[n]]_vars

ExecutionOrderIntegrityWitness ==
    /\ pc = "done"
    /\ Len(current_context.execution_order) = Cardinality(Names)
    /\ \E n \in Executed : StatusOf(n) = "failed"
    /\ \E n \in Executed : tasks[n].dependencies # <<>>

\* C14: in the report of a run the three counts of the summary are the
\* lengths of completed_tasks, failed_tasks and dlq, total_tasks is their
\* sum, and a configuration without tasks gives a report whose counts are
\* all zero.
ReportAccounting ==
    pc = "done" =>
        LET s == report.summary
        IN  /\ s.completed_tasks = Len(report.completed_tasks)
            /\ s.failed_tasks = Len(report.failed_tasks)
            /\ s.dlq_count = Len(report.dlq)
            /\ s.total_tasks = s.completed_tasks + s.failed_tasks + s.dlq_count
            /\ DOMAIN config = {} =>
                  /\ s.total_tasks = 0
                  /\ s.completed_tasks = 0
                  /\ s.failed_tasks = 0
                  /\ s.dlq_count = 0

ReportAccountingWitness ==
    /\ pc = "done"
    /\ report.summary.completed_tasks = 1
    /\ report.summary.failed_tasks = 1
    /\ report.summary.dlq_count = 1
    /\ report.summary.total_tasks = 3

\* The tasks of the names rs whose dependencies are all stored tasks with a
\* COMPLETED result in ctx.
Frontier(ctx, rs) ==
    {n \in rs :
        \A i \in DOMAIN tasks[n].dependencies :
            LET d == tasks[n].dependencies[i]
            IN  /\ d \in DOMAIN tasks
                /\ d \in DOMAIN ctx.task_results
                /\ ctx.task_results[d].status = "completed"}

\* C15: the tasks a round executes are the frontier of the names remaining
\* when the round began, computed from the context as it was then, and they
\* are appended to execution_order in sorted order; so a task is never
\* executed in the round in which one of its dependencies is executed, and
\* in execution_order every task comes after all its dependencies.
RoundOrdering ==
    [][/\ (pc = "classify" /\ pc' = "execute") =>
             queue' = Sorted(Frontier(observed[Len(observed)].held, round_start))
       /\ pc = "execute" =>
             LET task_name == Head(queue)
                 deps      == Range(tasks[task_name].dependencies)
             IN  /\ queue = Sorted(Range(queue))
                 /\ queue' = Tail(queue)
                 /\ current_context'.execution_order =
                       Append(current_context.execution_order, task_name)
                 /\ deps \cap Range(executable_tasks) = {}
                 /\ task_name \in Frontier(observed[Len(observed)].held, round_start)
       /\ pc' # "start" =>
             LET order == current_context'.execution_order
             IN  \A i \in DOMAIN order :
                    \A d \in Range(tasks'[order[i]].dependencies) :
                        \E j \in 1..(i - 1) : order[j] = d]_vars

\* A round has just executed b and c, in this order, after an earlier round
\* executed their dependency a.
RoundOrderingWitness ==
    /\ pc = "done"
    /\ current_context.execution_order = <<"a", "b", "c">>
    /\ Len(observed) = 2
    /\ tasks["b"].dependencies = <<"a">>
    /\ tasks["c"].dependencies = <<"a">>

\* The names of the DLQ entries whose reason is the cyclic one, in order.
CyclicEntries(dlq) ==
    LET sel == SelectSeq(dlq, LAMBDA e : e.reason.prefix = CyclicReason)
    IN  [i \in DOMAIN sel |-> sel[i].task]

\* C16: the cyclic reason is recorded only in a round whose executable set
\* is empty, for every name still remaining once the classification of that
\* round has removed the tasks with a missing or failed dependency, in
\* sorted order, and nothing is executed afterwards.  At the end of the run
\* a task has the cyclic reason exactly when it has no missing dependency,
\* no dependency with a FAILED result and a declared dependency that never
\* completed.
DeadlockRound ==
    [][/\ pc = "deadlock" =>
             /\ executable_tasks = <<>>
             /\ remaining_tasks = round_start \ DlqTasks(dlq_system.failures)
             /\ IsPrefix(dlq_system.failures, dlq_system'.failures)
             /\ dlq_system'.failures =
                   dlq_system.failures \o
                   SubSeq(dlq_system'.failures, Len(dlq_system.failures) + 1,
                          Len(dlq_system'.failures))
             /\ CyclicEntries(dlq_system'.failures) = Sorted(remaining_tasks)
             /\ CyclicEntries(dlq_system.failures) = <<>>
             /\ Len(dlq_system'.failures) =
                   Len(dlq_system.failures) + Cardinality(remaining_tasks)
             /\ pc' = "exit"
       /\ (pc \in {"classify", "execute", "exit"} /\ pc' # "start") =>
             CyclicEntries(dlq_system'.failures) =
                CyclicEntries(dlq_system.failures)
       /\ (pc \in {"deadlock", "exit"} /\ pc' # "start") =>
             /\ current_context'.execution_order =
                   current_context.execution_order
             /\ current_context'.task_results = current_context.task_results
             /\ pc' \in {"exit", "done"}
       /\ pc' = "done" =>
             \A n \in DOMAIN tasks' :
                (n \in Range(CyclicEntries(report'.dlq)))
                <=> /\ Range(tasks'[n].dependencies) \subseteq DOMAIN tasks'
                    /\ \A d \in Range(tasks'[n].dependencies) :
                          ~(/\ d \in DOMAIN current_context'.task_results
                            /\ current_context'.task_results[d].status = "failed")
                    /\ \E d \in Range(tasks'[n].dependencies) :
                          ~(/\ d \in DOMAIN current_context'.task_results
                            /\ current_context'.task_results[d].status
                                 = "completed")]_vars

\* A deadlock round after a round that executed: a ran, b waits for itself
\* and c waits for b, which the DLQ holds.
DeadlockRoundWitness ==
    /\ pc = "done"
    /\ current_context.execution_order = <<"a">>
    /\ CyclicEntries(report.dlq) = <<"b", "c">>
    /\ tasks["b"].dependencies = <<"b">>
    /\ tasks["c"].dependencies = <<"a", "b">>

\* C17: the DLQ only grows at its end and its entries stay as recorded; a
\* task that has an entry is not visited by classification again, is not
\* executed and gets no second entry, and the report returns the entries as
\* recorded.
DlqFinality ==
    [][(pc # "start" /\ pc' # "start") =>
        LET old == dlq_system.failures
            new == dlq_system'.failures
        IN  /\ IsPrefix(old, new)
            /\ NoRepeat([i \in DOMAIN new |-> new[i].task])
            /\ pc = "classify" => Head(todo) \notin DlqTasks(old)
            /\ pc = "execute" => Head(queue) \notin DlqTasks(old)
            /\ DlqTasks(new) \cap DOMAIN current_context'.task_results = {}
            /\ DlqTasks(new) \cap remaining_tasks' \cap Range(todo') = {}
            /\ pc' = "done" =>
                  /\ report'.dlq = new
                  /\ current_context'.dlq = new]_vars

\* Two entries recorded in the round after the one that executed a task:
\* the first by classification, the second by the deadlock branch.
DlqFinalityWitness ==
    /\ pc = "done"
    /\ Len(current_context.execution_order) = 1
    /\ Len(report.dlq) = 2
    /\ report.dlq[1].reason.prefix = FailedPrefix
    /\ report.dlq[2].reason.prefix = CyclicReason
    /\ Len(observed) = 2

StatusPath(log, n) ==
    <<"pending">> \o (IF n \in DOMAIN log THEN log[n] ELSE <<>>)

\* C19: the status of a task goes from PENDING to RUNNING and from there to
\* COMPLETED or FAILED, and never back; a result stored in the context has
\* status COMPLETED or FAILED, the last status of the task, and is never
\* overwritten; a task of the DLQ was never RUNNING.
TaskStateMachine ==
    [][pc' # "start" =>
        LET res == current_context'.task_results
        IN  /\ \A n \in DOMAIN tasks' :
                  /\ StatusPath(status_log', n) \in
                        {<<"pending">>,
                         <<"pending", "running", "completed">>,
                         <<"pending", "running", "failed">>}
                  /\ n \in DOMAIN res <=> Len(StatusPath(status_log', n)) = 3
                  /\ n \in DOMAIN res =>
                        /\ res[n].status \in {"completed", "failed"}
                        /\ res[n].status = StatusPath(status_log', n)[3]
                  /\ n \in DlqTasks(dlq_system'.failures) =>
                        StatusPath(status_log', n) = <<"pending">>
            /\ DOMAIN status_log' \subseteq DOMAIN tasks'
            /\ pc # "start" =>
                  \A n \in DOMAIN tasks :
                      /\ IsPrefix(StatusPath(status_log, n),
                                  StatusPath(status_log', n))
                      /\ n \in DOMAIN current_context.task_results =>
                            /\ n \in DOMAIN res
                            /\ res[n] = current_context.task_results[n]]_vars

\* One task COMPLETED, one FAILED and one in the DLQ that was never RUNNING.
TaskStateMachineWitness ==
    /\ pc = "done"
    /\ \E n, m, k \in DOMAIN tasks :
          /\ StatusPath(status_log, n) = <<"pending", "running", "completed">>
          /\ StatusPath(status_log, m) = <<"pending", "running", "failed">>
          /\ k \in DlqTasks(report.dlq)
          /\ StatusPath(status_log, k) = <<"pending">>

\* The ExecutionContext objects of a run: the one run creates and passes to
\* _execute_tasks, and its clone, which the name current_context is bound
\* to from then on.
Object(name) == IF name = "context" THEN context ELSE current_context

\* C20: no ExecutionContext is changed in place: the context passed to
\* _execute_tasks stays as run created it, and a context read when an
\* earlier round began still holds the task_results, execution_order and
\* dlq it held then.
ContextImmutability ==
    pc # "start" =>
        /\ context = NewContext(seed)
        /\ \A i \in DOMAIN observed :
              LET now == Object(observed[i].object)
              IN  /\ now.task_results = observed[i].held.task_results
                  /\ now.execution_order = observed[i].held.execution_order
                  /\ now.dlq = observed[i].held.dlq

\* C21: in a run every sub-generator key that exists belongs to an executed
\* task and has been drawn from once; and a task that is executed in two
\* runs of the same seed with the same failure_rate gets the same outcome in
\* both, whatever other tasks the two configurations hold.
OutcomeIndependence ==
    pc # "start" =>
        /\ DOMAIN random_generator.states =
              {ContextKey(seed, n) : n \in Executed}
        /\ \A k \in DOMAIN random_generator.states :
              random_generator.states[k].pos = 1
        /\ history # <<>> =>
              \A n \in Executed :
                  (/\ n \in DOMAIN history[1].config
                   /\ history[1].config[n].failure_rate = tasks[n].failure_rate
                   /\ n \in Range(history[1].report.execution_order))
                  => (StatusOf(n) = "completed"
                        <=> n \in Range(history[1].report.completed_tasks))

====
